---- MODULE Spec2Model ----
(***************************************************************************)
(* Quote lifecycle and notification delivery of the quote API              *)
(* (src/routes/quoteRoutes.js, first router of the file) together with the *)
(* Quote schemas the handlers store their documents through.               *)
(*                                                                         *)
(* Every handler is an async function: one action of the model is the code *)
(* that runs between two awaits, so requests interleave exactly where the  *)
(* event loop lets them.                                                   *)
(***************************************************************************)
EXTENDS Integers, Sequences, FiniteSets, TLC

\* ---------------------------------------------------------------- bounds
MaxQuotes == 1       \* quotes created over a run
MaxItems == 1        \* line items of a create payload
MaxTestimonials == 2 \* testimonials created over a run
MaxRetries == 5      \* largest retries argument of a send taken on its own

\* ------------------------------------------------------ program constants
DefaultRetries == 3  \* sendEmailWithRetry(mailOptions, retries = 3)
BackoffBase == 2000  \* setTimeout(resolve, 2000 * attempt), milliseconds

\* Two requests are in flight at a time, which gives every pairwise
\* interleaving of the handlers.
Req == {"a", "b"}
QuoteIds == 1..MaxQuotes

Absent == "absent"   \* a path the document does not carry (undefined)

Paths == {"status", "adminNotes", "emailStatus", "emailError"}

\* the id resolves to no document (findById yields null)
NoDoc == [p \in Paths |-> "nodoc"]

\* The two Quote schemas of the repository; which one models/Quote.js is
\* at run time is fixed at start and never changes.
QuoteSchemas == {"part_001", "Testimonials"}

\* Paths a schema declares (among the paths the handlers touch).
SchemaPaths(s) ==
  IF s = "part_001" THEN {"status"} ELSE {"status", "adminNotes"}

\* enum of the status path.
StatusEnum(s) ==
  IF s = "part_001" THEN {"pending", "processed", "completed"}
  ELSE {"pending", "processed", "completed", "customer_replied"}

\* default of a declared path.
SchemaDefault(p) ==
  IF p = "status" THEN "pending" ELSE IF p = "adminNotes" THEN "" ELSE Absent

\* body('status').isIn([...]) of the PUT route.
PutStatusValues == {"pending", "processed", "completed", "cancelled"}

\* Values a request body may carry for status ("bogus" fails isIn) and for
\* adminNotes ("" stands for absent or empty, which the handler treats alike).
BodyStatus == PutStatusValues \cup {"bogus"}
BodyNotes == {"", "n1"}

VARIABLES
  quoteSchema,        \* the schema behind the Quote model
  transporter,        \* TRUE iff `transporter` was created
  emailServiceReady,  \* the readiness flag
  verifyPending,      \* the verify callback has not fired yet
  store,              \* the quotes collection: id -> document or NoDoc
  nextId,             \* the next _id a new Quote gets
  req,                \* one record per request slot
  snd,                \* a call of sendEmailWithRetry taken on its own
  productReq,         \* product router: one record per request slot
  testimonials,       \* the testimonials collection: id -> document
  testimonialReq      \* testimonial router: one record per request slot

vars == <<quoteSchema, transporter, emailServiceReady, verifyPending,
          store, nextId, req, snd, productReq, testimonials, testimonialReq>>

\* the state of the routers mounted beside the quote router
OtherRouters == <<productReq, testimonials, testimonialReq>>

\* A document with no path set.
EmptyDoc == [p \in Paths |-> Absent]

IdleReq ==
  [kind |-> "none", pc |-> "idle", id |-> 0, status |-> Absent, notes |-> "",
   doc |-> EmptyDoc, adhoc |-> EmptyDoc, modified |-> {},
   mail |-> "none", retries |-> 0, attempt |-> 0,
   outcome |-> "none", code |-> 0, errors |-> {}, data |-> EmptyDoc, warning |-> FALSE]

\* ---------------------------------------------------------- other routers
TestimonialIds == 1..MaxTestimonials

\* a product request slot; `sends` counts the handler's calls of res.send
\* or res.json
IdleProductReq == [kind |-> "none", pc |-> "idle", arg |-> "", code |-> 0,
                   sends |-> 0]

\* a testimonial request slot; `approved` and `featured` are the values of
\* the document the handler is about to save (`featured` also the filter of
\* a listing), `data` the ids a listing answered with
IdleTestimonialReq ==
  [kind |-> "none", pc |-> "idle", id |-> 0, approved |-> FALSE,
   featured |-> FALSE, code |-> 0, data |-> {}]

\* a testimonial id that was never saved, and one whose document was deleted
NoTestimonial ==
  [at |-> "none", approved |-> FALSE, featured |-> FALSE, approvedAt |-> FALSE]
Deleted == [NoTestimonial EXCEPT !.at = "deleted"]

OtherRoutersIdle ==
  /\ productReq = [r \in Req |-> IdleProductReq]
  /\ testimonials = [i \in TestimonialIds |-> NoTestimonial]
  /\ testimonialReq = [r \in Req |-> IdleTestimonialReq]

\* a call of sendEmailWithRetry that has not started
IdleSend ==
  [pc |-> "idle", retries |-> 0, attempt |-> 0, timer |-> 0,
   waited |-> 0, calls |-> 0, error |-> "none"]

\* ------------------------------------------------------------- documents

\* new Quote(fields): strict mode keeps declared paths only and fills the
\* defaults of the declared paths that were not given.
NewDocument(s, fields) ==
  [p \in Paths |->
     IF p \in SchemaPaths(s)
     THEN (IF fields[p] # Absent THEN fields[p] ELSE SchemaDefault(p))
     ELSE Absent]

\* doc.path = value on a request's in-memory document: a declared path is
\* set on the document and marked modified when the value differs; an
\* undeclared path becomes a plain property of the object.
SetPath(q, p, v) ==
  IF p \in SchemaPaths(quoteSchema)
  THEN [q EXCEPT !.doc[p] = v,
                 !.modified = IF q.doc[p] # v THEN @ \cup {p} ELSE @]
  ELSE [q EXCEPT !.adhoc[p] = v]

\* toJSON(doc), what res.json serialises: the declared paths only.
ToJSON(q) == q.doc

\* Faulty variant of ApplyDelta: the save writes the whole document back.
ApplyWholeDocument(stored, q) == q.doc

\* save() of a loaded document writes its modified paths only.
ApplyDelta(stored, q) ==
  [p \in Paths |-> IF p \in q.modified THEN q.doc[p] ELSE stored[p]]

\* validation run by save(): the status path against its enum.
ValidatesOk(q) ==
  ("status" \in q.modified) => (q.doc["status"] \in StatusEnum(quoteSchema))

\* ------------------------------------------------------------- responses
\* res.status(c).json(...): the handler is over, its locals are gone and
\* the response (status code, data, warning) is what remains of the request.
Respond(q, c, w) ==
  [IdleReq EXCEPT !.kind = q.kind, !.pc = "done",
                  !.outcome = q.outcome, !.code = c, !.warning = w,
                  !.data = IF c \in {200, 201} THEN ToJSON(q) ELSE EmptyDoc]

\* ------------------------------------------------------ request payloads
\* product ids a line item may name: none (""), or a well-formed id
ProductIds == {"", "p1", "p2"}
\* the products collection: the ids that resolve to a Product
Catalog == {"p1"}
Quantities == {0, 1}
LineItems == [productId : ProductIds, quantity : Quantities]
ProductLists ==
  UNION {[1..n -> LineItems] : n \in 0..MaxItems}
CreatePayloads == [products : ProductLists]

\* Faulty variant of ValidCreate: the quantity bound is off by one.
ValidCreateLax(p) ==
  /\ Len(p.products) >= 1
  /\ \A i \in 1..Len(p.products) :
        p.products[i].productId # "" /\ p.products[i].quantity >= 0

\* the validators of POST / on products, products.*.productId and
\* products.*.quantity (name, email, phone and projectDetails are taken as
\* valid).
ValidCreate(p) ==
  /\ Len(p.products) >= 1
  /\ \A i \in 1..Len(p.products) :
        p.products[i].productId # "" /\ p.products[i].quantity >= 1

\* errors.array() of POST /: the messages of the validators that failed.
CreateErrors(p) ==
  {m \in {"At least one product is required", "Product ID is required",
          "Quantity must be at least 1"} :
     \/ m = "At least one product is required" /\ Len(p.products) < 1
     \/ m = "Product ID is required"
          /\ \E i \in 1..Len(p.products) : p.products[i].productId = ""
     \/ m = "Quantity must be at least 1"
          /\ \E i \in 1..Len(p.products) : p.products[i].quantity < 1}

\* the validators of PUT /:id/status.
ValidPut(status) == status \in PutStatusValues

\* ------------------------------------------------- the handlers' catches

\* Faulty variant of PostEmailCatch: the error is recorded, emailStatus is
\* left as it was.
PostEmailCatchKeepsStatus(q, e) ==
  [SetPath(q, "emailError", e) EXCEPT !.pc = "saveFailed"]

\* catch (emailError) of POST /: record the failure on the document and
\* save it.
PostEmailCatch(q, e) ==
  [SetPath(SetPath(q, "emailStatus", "failed"), "emailError", e)
     EXCEPT !.pc = "saveFailed"]

\* Faulty variant of PutAfterSend: without the inner catch the rejection of
\* the send reaches the outer catch.
PutAfterSendPropagates(q) ==
  IF q.outcome = "rejected" THEN Respond(q, 500, FALSE)
  ELSE Respond(q, 200, FALSE)

\* catch (emailError) of PUT /:id/status logs, then the handler responds.
PutAfterSend(q) == Respond(q, 200, FALSE)

\* --------------------------------------------------- sendEmailWithRetry

\* Faulty variant of Rejected: after a rejected customer mail the create
\* goes on to the admin mail.
RejectedGoesOn(q, e) ==
  LET q1 == [q EXCEPT !.outcome = "rejected"]
  IN IF q.kind = "post"
     THEN IF q.mail = "customer"
          THEN [q1 EXCEPT !.mail = "admin", !.pc = "sendMail", !.attempt = 1]
          ELSE PostEmailCatch(q1, e)
     ELSE PutAfterSend(q1)

\* `throw error` on the last attempt: the promise rejects into the calling
\* handler's catch.
Rejected(q, e) ==
  LET q1 == [q EXCEPT !.outcome = "rejected"]
  IN IF q.kind = "post" THEN PostEmailCatch(q1, e) ELSE PutAfterSend(q1)

\* Faulty variant of Caught: the last attempt does not rethrow.
CaughtNeverGivesUp(q, n, e) ==
  [q EXCEPT !.pc = "backoff", !.attempt = n]

\* catch (error) inside the loop at attempt n.
Caught(q, n, e) ==
  IF n = q.retries
  THEN Rejected(q, e)
  ELSE [q EXCEPT !.pc = "backoff", !.attempt = n]

\* the try block of the loop at attempt n, up to `await sendMail`.
Attempt(q, n) ==
  IF ~emailServiceReady
  THEN Caught(q, n, "notReady")
  ELSE [q EXCEPT !.pc = "sendMail", !.attempt = n]

\* Faulty variant of SendEmailWithRetry: the send is started detached, the
\* handler having answered already.
SendDetached(q, mail, retries) ==
  LET q1 == [q EXCEPT !.mail = mail, !.retries = retries, !.outcome = "none",
                      !.code = IF q.kind = "post" THEN 201 ELSE 200]
  IN Attempt(q1, 1)

\* sendEmailWithRetry(mailOptions, retries) up to its first await, entered
\* with retries >= 1 (both handlers call it with the default).
SendEmailWithRetry(q, mail, retries) ==
  LET q1 == [q EXCEPT !.mail = mail, !.retries = retries, !.outcome = "none"]
  IN Attempt(q1, 1)

\* `return info`: the promise resolves and the handler goes on.
Resolved(q) ==
  LET q1 == [q EXCEPT !.outcome = "resolved"]
  IN IF q.kind = "post"
     THEN IF q.mail = "customer"
          THEN SendEmailWithRetry(q1, "admin", DefaultRetries)
          ELSE [SetPath(q1, "emailStatus", "sent") EXCEPT !.pc = "saveSent"]
     ELSE PutAfterSend(q1)

\* ------------------------------------------------------------------ Init
\* The state after the module has been loaded: initializeEmailTransporter
\* has either created the transporter and registered its callbacks, or
\* caught a configuration error.
Init ==
  /\ quoteSchema \in QuoteSchemas
  /\ transporter \in BOOLEAN
  /\ verifyPending = transporter
  /\ emailServiceReady = FALSE
  /\ store = [i \in QuoteIds |-> NoDoc]
  /\ nextId = 1
  /\ req = [r \in Req |-> IdleReq]
  /\ snd = IdleSend
  /\ OtherRoutersIdle

\* ---------------------------------------------------- transport callbacks
\* transporter.verify((error) => ...)
VerifyCallback(error) ==
  /\ verifyPending
  /\ verifyPending' = FALSE
  /\ emailServiceReady' = ~error
  /\ UNCHANGED <<quoteSchema, transporter, store, nextId, req, snd, OtherRouters>>

\* transporter.on('error', ...)
TransporterError ==
  /\ transporter
  /\ emailServiceReady
  /\ emailServiceReady' = FALSE
  /\ UNCHANGED <<quoteSchema, transporter, verifyPending, store, nextId, req, snd, OtherRouters>>

\* ------------------------------- one call of sendEmailWithRetry on its own
\* The same function as above with its clock: `timer` is the delay of the
\* pending setTimeout, `waited` the sum of the delays the call has asked for,
\* `calls` the number of times it invoked transporter.sendMail, `error` the
\* error its catch block saw last.
\* Faulty variant of BackoffDelay: the delay doubles with every attempt.
BackoffDelayDoubling(n) == BackoffBase * 2^n

\* the delay after failed attempt n
BackoffDelay(n) == BackoffBase * n

\* Faulty variant of SendCaught: the call gives up one attempt early.
SendCaughtEarly(c, n, e) ==
  IF n >= c.retries - 1
  THEN [c EXCEPT !.pc = "rejected", !.attempt = n, !.error = e]
  ELSE [c EXCEPT !.pc = "backoff", !.attempt = n, !.error = e,
                 !.timer = BackoffDelay(n),
                 !.waited = @ + BackoffDelay(n)]

\* catch (error) of attempt n, e the error caught
SendCaught(c, n, e) ==
  IF n = c.retries
  THEN [c EXCEPT !.pc = "rejected", !.attempt = n, !.error = e]
  ELSE [c EXCEPT !.pc = "backoff", !.attempt = n, !.error = e,
                 !.timer = BackoffDelay(n),
                 !.waited = @ + BackoffDelay(n)]

\* Faulty variant of SendAttempt: the flag is not tested.
SendAttemptUnchecked(c, n) ==
  [c EXCEPT !.pc = "sendMail", !.attempt = n, !.calls = @ + 1]

\* the try block of attempt n, up to its await
SendAttempt(c, n) ==
  IF ~emailServiceReady
  THEN SendCaught(c, n, "Email service not ready")
  ELSE [c EXCEPT !.pc = "sendMail", !.attempt = n, !.calls = @ + 1]

\* The state after the module has been loaded with the transporter created.
SendInit ==
  /\ quoteSchema = "Testimonials"
  /\ transporter = TRUE
  /\ verifyPending = TRUE
  /\ emailServiceReady = FALSE
  /\ store = [i \in QuoteIds |-> NoDoc]
  /\ nextId = 1
  /\ req = [r \in Req |-> IdleReq]
  /\ snd = IdleSend
  /\ OtherRoutersIdle

Handlers == <<quoteSchema, transporter, emailServiceReady, verifyPending,
              store, nextId, req,
              OtherRouters>>

\* A handler calls sendEmailWithRetry. The handlers test
\* `transporter && emailServiceReady` before their first call only, so the
\* flag may have been cleared by the time of a call, but verify has fired.
\* The loop runs to its first await; with retries < 1 it does not run at all
\* and the call returns undefined.
SendCall(retries) ==
  /\ snd.pc = "idle"
  /\ transporter /\ ~verifyPending
  /\ snd' = IF retries < 1
            THEN [IdleSend EXCEPT !.pc = "resolved", !.retries = retries]
            ELSE SendAttempt([IdleSend EXCEPT !.retries = retries], 1)
  /\ UNCHANGED Handlers

\* transporter.sendMail settles.
SendSendMailReturns(ok) ==
  /\ snd.pc = "sendMail"
  /\ snd' = IF ok THEN [snd EXCEPT !.pc = "resolved"]
            ELSE SendCaught(snd, snd.attempt, "transport")
  /\ UNCHANGED Handlers

\* The timer of the backoff fires: attempt++ and the next pass of the loop.
SendBackoffElapsed ==
  /\ snd.pc = "backoff"
  /\ snd.attempt + 1 <= snd.retries
  /\ snd' = SendAttempt([snd EXCEPT !.timer = 0], snd.attempt + 1)
  /\ UNCHANGED Handlers

\* The caller takes the result of the call.
SendReturns ==
  /\ snd.pc \in {"resolved", "rejected"}
  /\ snd' = IdleSend
  /\ UNCHANGED Handlers

SendNext ==
  \/ \E error \in BOOLEAN : VerifyCallback(error)
  \/ TransporterError
  \/ \E retries \in 0..MaxRetries : SendCall(retries)
  \/ \E ok \in BOOLEAN : SendSendMailReturns(ok)
  \/ SendBackoffElapsed
  \/ SendReturns

SendSpec == SendInit /\ [][SendNext]_vars

Env == <<quoteSchema, transporter, emailServiceReady, verifyPending>>

\* slot r has no request: the next one may take it.
Free(r) == req[r].pc = "idle"

\* Faulty variant of PostRequest: the new document gets an _id that is not
\* fresh.
PostRequestReusesId(r, payload) ==
  /\ Free(r)
  /\ nextId <= MaxQuotes
  /\ LET q0 == [IdleReq EXCEPT !.kind = "post"]
     IN IF ~ValidCreate(payload)
        THEN /\ req' = [req EXCEPT ![r] =
                       [Respond(q0, 400, FALSE)
                          EXCEPT !.errors = CreateErrors(payload)]]
             /\ nextId' = nextId
        ELSE /\ req' = [req EXCEPT ![r] =
                  [q0 EXCEPT !.pc = "save", !.id = nextId,
                     !.doc = NewDocument(quoteSchema,
                               [EmptyDoc EXCEPT !["status"] = "pending",
                                                !["emailStatus"] = "pending"])]]
             /\ nextId' = nextId
  /\ UNCHANGED <<Env, snd, OtherRouters, store>>

\* ---------------------------------------------------------------- POST /
\* validationResult, new Quote({...}), up to `await newQuote.save()`.
PostRequest(r, payload) ==
  /\ Free(r)
  /\ nextId <= MaxQuotes
  /\ LET q0 == [IdleReq EXCEPT !.kind = "post"]
     IN IF ~ValidCreate(payload)
        THEN /\ req' = [req EXCEPT ![r] =
                       [Respond(q0, 400, FALSE)
                          EXCEPT !.errors = CreateErrors(payload)]]
             /\ nextId' = nextId
        ELSE /\ req' = [req EXCEPT ![r] =
                  [q0 EXCEPT !.pc = "save", !.id = nextId,
                     !.doc = NewDocument(quoteSchema,
                               [EmptyDoc EXCEPT !["status"] = "pending",
                                                !["emailStatus"] = "pending"])]]
             /\ nextId' = nextId + 1
  /\ UNCHANGED <<Env, snd, OtherRouters, store>>

\* the first save settles; on success the handler runs on to the readiness
\* check and either enters the first send or records 'skipped'.
PostSaveReturns(r, ok) ==
  /\ req[r].kind = "post" /\ req[r].pc = "save"
  /\ LET q == req[r]
     IN IF ~ok
        THEN /\ req' = [req EXCEPT ![r] = Respond(q, 500, FALSE)]
             /\ store' = store
        ELSE /\ store' = [store EXCEPT ![q.id] = q.doc]
             /\ req' = [req EXCEPT ![r] =
                  IF transporter /\ emailServiceReady
                  THEN SendEmailWithRetry(q, "customer", DefaultRetries)
                  ELSE [SetPath(q, "emailStatus", "skipped")
                          EXCEPT !.pc = "saveSkipped"]]
  /\ UNCHANGED <<Env, snd, OtherRouters, nextId>>

\* a later save of the same document settles: its modified paths are
\* written; `next` is what the handler does after a successful save and
\* `failed` after a rejected one.
SaveSettles(r, ok, next, failed) ==
  LET q == req[r]
  IN IF ok /\ ValidatesOk(q)
     THEN /\ store' = [store EXCEPT ![q.id] = ApplyDelta(store[q.id], q)]
          /\ req' = [req EXCEPT ![r] = next]
     ELSE /\ store' = store
          /\ req' = [req EXCEPT ![r] = failed]

\* `await savedQuote.save()` after emailStatus = 'sent'; a rejection lands
\* in catch (emailError).
PostSaveSentReturns(r, ok) ==
  /\ req[r].kind = "post" /\ req[r].pc = "saveSent"
  /\ SaveSettles(r, ok,
       Respond([req[r] EXCEPT !.modified = {}], 201, FALSE),
       PostEmailCatch(req[r], "store"))
  /\ UNCHANGED <<Env, snd, OtherRouters, nextId>>

\* `await savedQuote.save()` inside catch (emailError); a rejection lands in
\* the outer catch.
PostSaveFailedReturns(r, ok) ==
  /\ req[r].kind = "post" /\ req[r].pc = "saveFailed"
  /\ SaveSettles(r, ok,
       Respond([req[r] EXCEPT !.modified = {}], 201, TRUE),
       Respond(req[r], 500, FALSE))
  /\ UNCHANGED <<Env, snd, OtherRouters, nextId>>

\* `await savedQuote.save()` after emailStatus = 'skipped'.
PostSaveSkippedReturns(r, ok) ==
  /\ req[r].kind = "post" /\ req[r].pc = "saveSkipped"
  /\ SaveSettles(r, ok,
       Respond([req[r] EXCEPT !.modified = {}], 201, FALSE),
       Respond(req[r], 500, FALSE))
  /\ UNCHANGED <<Env, snd, OtherRouters, nextId>>

\* ------------------------------------------------------ PUT /:id/status
\* validationResult, up to `await Quote.findById(req.params.id)`.
PutRequest(r, id, status, notes) ==
  /\ Free(r)
  /\ LET q0 == [IdleReq EXCEPT !.kind = "put", !.id = id,
                               !.status = status, !.notes = notes]
     IN req' = [req EXCEPT ![r] =
          IF ~ValidPut(status)
          THEN Respond(q0, 400, FALSE)
          ELSE [q0 EXCEPT !.pc = "findById"]]
  /\ UNCHANGED <<Env, snd, OtherRouters, store, nextId>>

\* Faulty variant of PutFindByIdReturns: the null check on the result of
\* findById is missing.
PutFindByIdUnchecked(r, ok) ==
  /\ req[r].kind = "put" /\ req[r].pc = "findById"
  /\ LET q == req[r]
     IN req' = [req EXCEPT ![r] =
          IF ~ok THEN Respond(q, 500, FALSE)
          ELSE LET q1 == [q EXCEPT !.doc = store[q.id]]
                   q2 == SetPath(q1, "status", q.status)
                   q3 == IF q.notes # ""
                         THEN SetPath(q2, "adminNotes", q.notes) ELSE q2
               IN [q3 EXCEPT !.pc = "savePut", !.status = Absent, !.notes = ""]]
  /\ UNCHANGED <<Env, snd, OtherRouters, store, nextId>>

\* findById settles; a found quote gets the body's status and notes and is
\* handed to save().
PutFindByIdReturns(r, ok) ==
  /\ req[r].kind = "put" /\ req[r].pc = "findById"
  /\ LET q == req[r]
     IN req' = [req EXCEPT ![r] =
          IF ~ok THEN Respond(q, 500, FALSE)
          ELSE IF store[q.id] = NoDoc THEN Respond(q, 404, FALSE)
          ELSE LET q1 == [q EXCEPT !.doc = store[q.id]]
                   q2 == SetPath(q1, "status", q.status)
                   q3 == IF q.notes # ""
                         THEN SetPath(q2, "adminNotes", q.notes) ELSE q2
               IN [q3 EXCEPT !.pc = "savePut", !.status = Absent, !.notes = ""]]
  /\ UNCHANGED <<Env, snd, OtherRouters, store, nextId>>

\* `await quote.save()` settles; on success the handler runs on to the
\* readiness check and either enters the send or responds. From here on the
\* handler works on updatedQuote only and never uses the id again.
PutSaveReturns(r, ok) ==
  /\ req[r].kind = "put" /\ req[r].pc = "savePut"
  /\ LET q == [req[r] EXCEPT !.modified = {}, !.id = 0]
     IN SaveSettles(r, ok,
          IF transporter /\ emailServiceReady
          THEN SendEmailWithRetry(q, "status", DefaultRetries)
          ELSE Respond(q, 200, FALSE),
          Respond(req[r], 500, FALSE))
  /\ UNCHANGED <<Env, snd, OtherRouters, nextId>>

\* Faulty variant of SendMailReturns: a failed send marks the service as
\* not ready.
SendMailReturnsClearsFlag(r, ok) ==
  /\ req[r].pc = "sendMail"
  /\ req' = [req EXCEPT ![r] =
        IF ok THEN Resolved(req[r])
        ELSE Caught(req[r], req[r].attempt, "transport")]
  /\ emailServiceReady' = (ok /\ emailServiceReady)
  /\ UNCHANGED <<quoteSchema, transporter, verifyPending, snd, OtherRouters,
               store, nextId>>

\* ---------------------------------------------- sendEmailWithRetry steps
\* `await transporter.sendMail(mailOptions)` settles.
SendMailReturns(r, ok) ==
  /\ req[r].pc = "sendMail"
  /\ req' = [req EXCEPT ![r] =
        IF ok THEN Resolved(req[r])
        ELSE Caught(req[r], req[r].attempt, "transport")]
  /\ UNCHANGED <<Env, snd, OtherRouters, store, nextId>>

\* the backoff timer fires: attempt++ and the loop body runs again.
BackoffElapsed(r) ==
  /\ req[r].pc = "backoff"
  /\ req[r].attempt + 1 <= req[r].retries
  /\ req' = [req EXCEPT ![r] = Attempt(req[r], req[r].attempt + 1)]
  /\ UNCHANGED <<Env, snd, OtherRouters, store, nextId>>

\* the response has gone out: the request is over and its slot is free.
Release(r) ==
  /\ req[r].pc = "done"
  /\ req' = [req EXCEPT ![r] = IdleReq]
  /\ UNCHANGED <<Env, snd, OtherRouters, store, nextId>>

Next ==
  \/ \E error \in BOOLEAN : VerifyCallback(error)
  \/ TransporterError
  \/ \E r \in Req, payload \in CreatePayloads : PostRequest(r, payload)
  \/ \E r \in Req, ok \in BOOLEAN : PostSaveReturns(r, ok)
  \/ \E r \in Req, ok \in BOOLEAN : PostSaveSentReturns(r, ok)
  \/ \E r \in Req, ok \in BOOLEAN : PostSaveFailedReturns(r, ok)
  \/ \E r \in Req, ok \in BOOLEAN : PostSaveSkippedReturns(r, ok)
  \/ \E r \in Req, id \in QuoteIds, status \in BodyStatus, notes \in BodyNotes :
        PutRequest(r, id, status, notes)
  \/ \E r \in Req, ok \in BOOLEAN : PutFindByIdReturns(r, ok)
  \/ \E r \in Req, ok \in BOOLEAN : PutSaveReturns(r, ok)
  \/ \E r \in Req, ok \in BOOLEAN : SendMailReturns(r, ok)
  \/ \E r \in Req : BackoffElapsed(r)
  \/ \E r \in Req : Release(r)

Spec == Init /\ [][Next]_vars

\* ========================================================= product router
\* GET /, GET /category/:category and GET /:id of the product router.
ProductKinds == {"list", "category", "id"}
Categories == {"", "c1", "c2"}   \* "" is what trim() leaves of a blank param
ProductParams == {"bad", "p1", "p2"}   \* "bad" is not a MongoId
ProductArgs(k) ==
  IF k = "list" THEN {""} ELSE IF k = "category" THEN Categories
  ELSE ProductParams

\* param('category').notEmpty() and param('id').isMongoId()
ValidProductArg(k, a) ==
  IF k = "category" THEN a # "" ELSE IF k = "id" THEN a # "bad" ELSE TRUE

\* what the query finds: the catalog's products are of category c1
ProductsFound(k, a) ==
  IF k = "list" THEN Catalog
  ELSE IF k = "category" THEN (IF a = "c1" THEN Catalog ELSE {})
  ELSE Catalog \cap {a}

\* res.status(c).json(...) or .send(...), once
ProductRespond(q, c) ==
  [IdleProductReq EXCEPT !.kind = q.kind, !.pc = "done", !.code = c,
                         !.sends = q.sends + 1]

\* the catch block of the three handlers: res.status(500).send(...) and
\* then res.status(500).json(...) on the same response
ProductCatch(q) == ProductRespond(ProductRespond(q, 500), 500)

QuoteRouter == <<quoteSchema, transporter, emailServiceReady, verifyPending,
                 store, nextId, req, snd>>

ProductRequest(r, k, a) ==
  /\ productReq[r].pc = "idle"
  /\ LET q == [IdleProductReq EXCEPT !.kind = k, !.arg = a]
     IN productReq' = [productReq EXCEPT ![r] =
          IF ~ValidProductArg(k, a) THEN ProductRespond(q, 400)
          ELSE [q EXCEPT !.pc = "find"]]
  /\ UNCHANGED <<QuoteRouter, testimonials, testimonialReq>>

\* Product.find / Product.findById settles.
ProductFindReturns(r, ok) ==
  /\ productReq[r].pc = "find"
  /\ LET q == productReq[r]
     IN productReq' = [productReq EXCEPT ![r] =
          IF ~ok THEN ProductCatch(q)
          ELSE IF q.kind # "list" /\ ProductsFound(q.kind, q.arg) = {}
               THEN ProductRespond(q, 404)
               ELSE ProductRespond(q, 200)]
  /\ UNCHANGED <<QuoteRouter, testimonials, testimonialReq>>

ProductRelease(r) ==
  /\ productReq[r].pc = "done"
  /\ productReq' = [productReq EXCEPT ![r] = IdleProductReq]
  /\ UNCHANGED <<QuoteRouter, testimonials, testimonialReq>>

ProductNext ==
  \/ \E r \in Req, k \in ProductKinds : \E a \in ProductArgs(k) :
        ProductRequest(r, k, a)
  \/ \E r \in Req, ok \in BOOLEAN : ProductFindReturns(r, ok)
  \/ \E r \in Req : ProductRelease(r)

ProductSpec == SendInit /\ [][ProductNext]_vars

\* ===================================================== testimonial router
\* What a create body may carry: authorName, the length of content, and the
\* fields approved and featured a client may add.
TestimonialBodies ==
  [authorName : {"", "A"}, contentLength : {19, 20},
   approved : BOOLEAN, featured : BOOLEAN]

\* body('authorName').notEmpty(), body('content').isLength({ min: 20 })
ValidTestimonial(b) == b.authorName # "" /\ b.contentLength >= 20

\* Faulty variant of NewTestimonial: approved and featured are taken from
\* the body.
NewTestimonialFromBody(q, b) ==
  [q EXCEPT !.approved = b.approved, !.featured = b.featured]

\* new Testimonial({ authorName, authorTitle, content, rating,
\* approved: false, featured: false, ... })
NewTestimonial(q, b) == [q EXCEPT !.approved = FALSE, !.featured = FALSE]

Stored(i) == testimonials[i].at = "stored"
Unused == {i \in TestimonialIds : testimonials[i] = NoTestimonial}
Creating == {r \in Req : testimonialReq[r].kind = "create"
                          /\ testimonialReq[r].pc = "save"}

TestimonialRespond(q, c, d) ==
  [IdleTestimonialReq EXCEPT !.kind = q.kind, !.pc = "done", !.code = c,
                             !.data = d]

\* Testimonial.find({ approved: true [, featured: true] })
PublicListing(featuredOnly) ==
  {i \in TestimonialIds :
     Stored(i) /\ testimonials[i].approved
       /\ (featuredOnly => testimonials[i].featured)}

\* A handler starts and runs to its first await. k is the route, id the :id
\* param, b the body of a create, f the featured=true query of a listing.
TestimonialRequest(r, k, id, b, f) ==
  /\ testimonialReq[r].pc = "idle"
  /\ k = "create" => Cardinality(Unused) > Cardinality(Creating)
  /\ LET q == [IdleTestimonialReq EXCEPT !.kind = k]
     IN testimonialReq' = [testimonialReq EXCEPT ![r] =
          IF k = "create"
          THEN IF ~ValidTestimonial(b) THEN TestimonialRespond(q, 400, {})
               ELSE [NewTestimonial(q, b) EXCEPT !.pc = "save"]
          ELSE IF k = "list" THEN [q EXCEPT !.pc = "exec", !.featured = f]
          ELSE IF k = "approve" THEN [q EXCEPT !.pc = "findByIdAndUpdate", !.id = id]
          ELSE IF k = "feature" THEN [q EXCEPT !.pc = "findById", !.id = id]
          ELSE [q EXCEPT !.pc = "findByIdAndDelete", !.id = id]]
  /\ UNCHANGED <<QuoteRouter, productReq, testimonials>>

\* testimonial.save() of POST / settles.
TestimonialSaveReturns(r, ok) ==
  /\ testimonialReq[r].kind = "create" /\ testimonialReq[r].pc = "save"
  /\ LET q == testimonialReq[r]
         i == CHOOSE u \in Unused : \A v \in Unused : u <= v
     IN IF ok
        THEN /\ testimonials' = [testimonials EXCEPT ![i] =
                  [at |-> "stored", approved |-> q.approved,
                   featured |-> q.featured, approvedAt |-> FALSE]]
             /\ testimonialReq' = [testimonialReq EXCEPT ![r] =
                  TestimonialRespond(q, 201, {})]
        ELSE /\ testimonials' = testimonials
             /\ testimonialReq' = [testimonialReq EXCEPT ![r] =
                  TestimonialRespond(q, 500, {})]
  /\ UNCHANGED <<QuoteRouter, productReq>>

\* The query of GET / settles.
TestimonialExecReturns(r, ok) ==
  /\ testimonialReq[r].pc = "exec"
  /\ testimonialReq' = [testimonialReq EXCEPT ![r] =
        IF ok THEN TestimonialRespond(@, 200, PublicListing(@.featured))
        ELSE TestimonialRespond(@, 500, {})]
  /\ UNCHANGED <<QuoteRouter, productReq, testimonials>>

\* findByIdAndUpdate(id, { approved: true, approvedAt, approvedBy }) settles.
TestimonialApproveReturns(r, ok) ==
  /\ testimonialReq[r].pc = "findByIdAndUpdate"
  /\ LET q == testimonialReq[r]
     IN IF ok /\ Stored(q.id)
        THEN /\ testimonials' = [testimonials EXCEPT
                  ![q.id].approved = TRUE, ![q.id].approvedAt = TRUE]
             /\ testimonialReq' = [testimonialReq EXCEPT ![r] =
                  TestimonialRespond(q, 200, {})]
        ELSE /\ testimonials' = testimonials
             /\ testimonialReq' = [testimonialReq EXCEPT ![r] =
                  TestimonialRespond(q, IF ok THEN 404 ELSE 500, {})]
  /\ UNCHANGED <<QuoteRouter, productReq>>

\* findById of PUT /:id/feature settles; the handler flips featured on the
\* document and calls save().
TestimonialFindReturns(r, ok) ==
  /\ testimonialReq[r].pc = "findById"
  /\ LET q == testimonialReq[r]
     IN testimonialReq' = [testimonialReq EXCEPT ![r] =
          IF ~ok THEN TestimonialRespond(q, 500, {})
          ELSE IF ~Stored(q.id) THEN TestimonialRespond(q, 404, {})
          ELSE [q EXCEPT !.pc = "saveFeatured",
                         !.approved = testimonials[q.id].approved,
                         !.featured = ~testimonials[q.id].featured]]
  /\ UNCHANGED <<QuoteRouter, productReq, testimonials>>

\* save() of PUT /:id/feature settles: it writes the modified path,
\* featured, and rejects when the document is gone.
TestimonialFeatureSaveReturns(r, ok) ==
  /\ testimonialReq[r].pc = "saveFeatured"
  /\ LET q == testimonialReq[r]
     IN IF ok /\ Stored(q.id)
        THEN /\ testimonials' = [testimonials EXCEPT
                  ![q.id].featured = q.featured]
             /\ testimonialReq' = [testimonialReq EXCEPT ![r] =
                  TestimonialRespond(q, 200, {})]
        ELSE /\ testimonials' = testimonials
             /\ testimonialReq' = [testimonialReq EXCEPT ![r] =
                  TestimonialRespond(q, 500, {})]
  /\ UNCHANGED <<QuoteRouter, productReq>>

\* findByIdAndDelete settles.
TestimonialDeleteReturns(r, ok) ==
  /\ testimonialReq[r].pc = "findByIdAndDelete"
  /\ LET q == testimonialReq[r]
     IN IF ok /\ Stored(q.id)
        THEN /\ testimonials' = [testimonials EXCEPT ![q.id] = Deleted]
             /\ testimonialReq' = [testimonialReq EXCEPT ![r] =
                  TestimonialRespond(q, 200, {})]
        ELSE /\ testimonials' = testimonials
             /\ testimonialReq' = [testimonialReq EXCEPT ![r] =
                  TestimonialRespond(q, IF ok THEN 404 ELSE 500, {})]
  /\ UNCHANGED <<QuoteRouter, productReq>>

TestimonialRelease(r) ==
  /\ testimonialReq[r].pc = "done"
  /\ testimonialReq' = [testimonialReq EXCEPT ![r] = IdleTestimonialReq]
  /\ UNCHANGED <<QuoteRouter, productReq, testimonials>>

\* the body of a request that carries none
NoBody == [authorName |-> "", contentLength |-> 0,
           approved |-> FALSE, featured |-> FALSE]

TestimonialNext ==
  \/ \E r \in Req, b \in TestimonialBodies :
        TestimonialRequest(r, "create", 0, b, FALSE)
  \/ \E r \in Req, f \in BOOLEAN :
        TestimonialRequest(r, "list", 0, NoBody, f)
  \/ \E r \in Req, k \in {"approve", "feature", "delete"},
         id \in TestimonialIds :
        TestimonialRequest(r, k, id, NoBody, FALSE)
  \/ \E r \in Req, ok \in BOOLEAN : TestimonialSaveReturns(r, ok)
  \/ \E r \in Req, ok \in BOOLEAN : TestimonialExecReturns(r, ok)
  \/ \E r \in Req, ok \in BOOLEAN : TestimonialApproveReturns(r, ok)
  \/ \E r \in Req, ok \in BOOLEAN : TestimonialFindReturns(r, ok)
  \/ \E r \in Req, ok \in BOOLEAN : TestimonialFeatureSaveReturns(r, ok)
  \/ \E r \in Req, ok \in BOOLEAN : TestimonialDeleteReturns(r, ok)
  \/ \E r \in Req : TestimonialRelease(r)

TestimonialSpec == SendInit /\ [][TestimonialNext]_vars

\* Every pending operation settles: a store operation or transporter.sendMail
\* returns, a timer fires, and a response that was sent ends its request.
\* New requests and the transporter's events are under no obligation.
Settles(r) ==
  \/ \E ok \in BOOLEAN : PostSaveReturns(r, ok)
  \/ \E ok \in BOOLEAN : PostSaveSentReturns(r, ok)
  \/ \E ok \in BOOLEAN : PostSaveFailedReturns(r, ok)
  \/ \E ok \in BOOLEAN : PostSaveSkippedReturns(r, ok)
  \/ \E ok \in BOOLEAN : PutFindByIdReturns(r, ok)
  \/ \E ok \in BOOLEAN : PutSaveReturns(r, ok)
  \/ \E ok \in BOOLEAN : SendMailReturns(r, ok)
  \/ BackoffElapsed(r)

FairSpec == Spec /\ \A r \in Req : WF_vars(Settles(r))

TypeOK ==
  /\ quoteSchema \in QuoteSchemas
  /\ transporter \in BOOLEAN /\ emailServiceReady \in BOOLEAN
  /\ nextId \in 1..(MaxQuotes + 1)
  /\ \A i \in QuoteIds : i >= nextId => store[i] = NoDoc
  /\ \A r \in Req : req[r].attempt \in 0..DefaultRetries

\* ================================================================ claims

Success == {200, 201}
EmailStatuses == {"pending", "sent", "failed", "skipped"}
Delivering == {"sendMail", "backoff"}
WritingBack == {"saveSent", "saveFailed", "saveSkipped"}

\* the transition graph of the specification, self-loops included
Permitted ==
  {<<"pending", "processed">>, <<"processed", "completed">>,
   <<"pending", "cancelled">>, <<"processed", "cancelled">>}
  \cup {<<s, s>> : s \in PutStatusValues}

\* request r takes a step
Steps(r) == req'[r] # req[r]

\* C1: an update whose (stored status, new status) pair is not an edge of the
\* transition graph is answered with an error and leaves the store as it
\* was, so the stored status never moves backward.
C1_InvalidTransitionRejected ==
  [][\A r \in Req :
       ( /\ req[r].kind = "put" /\ req[r].pc = "savePut" /\ Steps(r)
         /\ <<store[req[r].id]["status"], req[r].doc["status"]>> \notin Permitted )
       => ( /\ store' = store
            /\ req'[r].pc = "done" /\ req'[r].code \notin Success )]_vars

\* C2: a stored status of completed or cancelled never changes again.
C2_TerminalStatusStays ==
  [][\A i \in QuoteIds :
       store[i]["status"] \in {"completed", "cancelled"}
       => store'[i]["status"] = store[i]["status"]]_vars

\* C3: the quote a successful create returns has status pending and carries
\* an emailStatus among pending, sent, failed, skipped.
C3_CreatedQuoteHasEmailStatus ==
  \A r \in Req :
    (req[r].kind = "post" /\ req[r].pc = "done" /\ req[r].code = 201)
    => ( /\ req[r].data["status"] = "pending"
         /\ req[r].data["emailStatus"] \in EmailStatuses )

\* C4: a create whose sends ran on a ready transport and that answers with
\* success leaves the quote with emailStatus failed and emailError set when
\* a send failed all its attempts, and with emailStatus sent when both sends
\* succeeded.
C4_DeliveryOutcomeRecorded ==
  [][\A r \in Req :
       ( /\ req[r].kind = "post" /\ req[r].pc \in {"saveSent", "saveFailed"}
         /\ Steps(r) /\ req'[r].code = 201 )
       => ( /\ (req[r].pc = "saveFailed" /\ req[r].adhoc["emailError"] = "transport")
               => ( /\ store'[req[r].id]["emailStatus"] = "failed"
                    /\ store'[req[r].id]["emailError"] # Absent )
            /\ (req[r].pc = "saveSent")
               => store'[req[r].id]["emailStatus"] = "sent" )]_vars

\* C5: a create that finds the transport not configured or not ready does
\* not enter a send: it goes on to record emailStatus skipped, and when it
\* answers with success the stored quote has emailStatus skipped.
C5_UnreadyTransportSkips ==
  [][\A r \in Req :
       /\ ( /\ req[r].kind = "post" /\ req[r].pc = "save" /\ Steps(r)
            /\ ~(transporter /\ emailServiceReady) /\ req'[r].code # 500 )
          => req'[r].pc = "saveSkipped"
       /\ ( /\ req[r].kind = "post" /\ req[r].pc = "saveSkipped" /\ Steps(r)
            /\ req'[r].code = 201 )
          => store'[req[r].id]["emailStatus"] = "skipped"]_vars

C7_CreateSucceedsOncePersisted ==
  [][\A r \in Req :
       ( /\ req[r].kind = "post" /\ req[r].pc \in (Delivering \cup WritingBack)
         /\ Steps(r) /\ req'[r].pc = "done" )
       => req'[r].code = 201]_vars

\* C8: while the notification of a status update is being delivered, the
\* handler never touches the store again, and however the delivery ends the
\* caller gets success with the updated quote.
C8_NotificationFailureKeepsUpdate ==
  [][\A r \in Req :
       (req[r].kind = "put" /\ req[r].pc \in Delivering /\ Steps(r))
       => ( /\ store' = store
            /\ req'[r].pc = "done"
               => (req'[r].code = 200 /\ req'[r].data = req[r].doc) )]_vars

\* a status update answered with success after its notification exhausted
\* its retries, the stored status being the one it wrote
C8_Witness ==
  \E r \in Req :
    /\ req[r].kind = "put" /\ req[r].pc = "done"
    /\ req[r].outcome = "rejected" /\ req[r].code = 200
    /\ req[r].data["status"] = "processed"
    /\ \E i \in QuoteIds : store[i]["status"] = "processed"

\* C9: an update that names the status the quote already has (and gives no
\* notes) leaves the store as it was and hands no message to the transport.
C9_SameStatusIsNoOp ==
  [][\A r \in Req :
       ( /\ req[r].kind = "put" /\ req[r].pc = "savePut" /\ Steps(r)
         /\ "adminNotes" \notin req[r].modified
         /\ req[r].adhoc["adminNotes"] = Absent
         /\ store[req[r].id]["status"] = req[r].doc["status"] )
       => (store' = store /\ req'[r].pc # "sendMail")]_vars

\* C10: a call of sendEmailWithRetry never ends by raising to its caller.
C10_SendNeverRaises ==
  \A r \in Req : req[r].outcome # "rejected"

\* the payloads with an empty products list or a quantity below 1
EmptyOrBadQuantity ==
  {p \in CreatePayloads :
     \/ Len(p.products) = 0
     \/ \E i \in 1..Len(p.products) : p.products[i].quantity < 1}

\* C11: a create whose payload has an empty products list or a line item
\* with quantity < 1 is answered 400 at once: no document is constructed or
\* stored and the handler never gets to a send.
C11_InvalidCreateRejected ==
  [][\A r \in Req :
       (req[r].pc = "idle" /\ req'[r].kind = "post")
       => \A p \in EmptyOrBadQuantity :
            PostRequest(r, p)
            => ( /\ req'[r].pc = "done" /\ req'[r].code = 400
                 /\ store' = store /\ nextId' = nextId )]_vars

\* a create with a quantity below 1 answered 400, the store holding no quote
C11_Witness ==
  \E r \in Req :
    /\ req[r].kind = "post" /\ req[r].pc = "done" /\ req[r].code = 400
    /\ "Quantity must be at least 1" \in req[r].errors
    /\ \A i \in QuoteIds : store[i] = NoDoc

\* C12: a create with a line item whose product id is not in the catalog is
\* answered with an error and never goes on to save a quote.
C12_UnknownProductRejected ==
  [][\A r \in Req :
       (req[r].pc = "idle" /\ req'[r].kind = "post")
       => \A p \in CreatePayloads :
            ( /\ \E i \in 1..Len(p.products) :
                   p.products[i].productId \notin Catalog
              /\ PostRequest(r, p) )
            => (req'[r].pc = "done" /\ req'[r].code \notin Success)]_vars

\* C13: when findById resolves to no document the update is answered 404,
\* no stored quote changes and the handler never gets to a send.
C13_UnknownIdNotFound ==
  [][\A r \in Req :
       ( /\ req[r].kind = "put" /\ req[r].pc = "findById" /\ Steps(r)
         /\ store[req[r].id] = NoDoc
         /\ req'[r].code # 500 )
       => (req'[r].pc = "done" /\ req'[r].code = 404 /\ store' = store)]_vars

\* an update answered 404
C13_Witness ==
  \E r \in Req :
    req[r].kind = "put" /\ req[r].pc = "done" /\ req[r].code = 404

\* C14: an update that was answered after its status mail leaves the quote
\* with emailStatus sent when the mail was delivered, failed with emailError
\* when the send was rejected, and skipped when the sender was not ready.
C14_StatusMailReconciled ==
  [][\A r \in Req :
       ( /\ req[r].kind = "put" /\ Steps(r)
         /\ req'[r].pc = "done" /\ req'[r].code = 200 )
       => LET want == IF req[r].pc = "savePut" THEN "skipped"
                      ELSE IF req'[r].outcome = "resolved" THEN "sent"
                      ELSE "failed"
          IN /\ \E i \in QuoteIds : store'[i]["emailStatus"] = want
             /\ want = "failed" =>
                  \E i \in QuoteIds :
                    store'[i]["emailError"] \notin {Absent, "nodoc"}]_vars

\* C15: a create that got to write back a delivery outcome has handed both
\* the customer confirmation and the admin alert to sendEmailWithRetry.
C15_BothMailsHandedOver ==
  \A r \in Req :
    (req[r].kind = "post" /\ req[r].pc \in {"saveSent", "saveFailed"})
      => req[r].mail = "admin"

C17_UnreadyAttemptFailsFast ==
  [][\A r \in Req :
       (req[r].pc = "backoff" /\ ~emailServiceReady /\ Steps(r))
       => (req'[r].pc # "backoff" /\ req'[r].attempt = req[r].attempt)]_vars

\* C18: an update to cancelled whose save was issued on a stored status of
\* pending or processed is answered 200 and the stored status is cancelled.
C18_CancelSucceeds ==
  [][\A r \in Req :
       ( /\ req[r].kind = "put" /\ req[r].pc = "savePut" /\ Steps(r)
         /\ req[r].doc["status"] = "cancelled"
         /\ store[req[r].id]["status"] \in {"pending", "processed"} )
       => ( /\ store'[req[r].id]["status"] = "cancelled"
            /\ req'[r].code \in {0, 200} )]_vars

\* C19: when no transporter was created, no request is ever in a send, and a
\* create answered 201 leaves its quote stored with emailStatus skipped.
C19_FailedInitSkipsEverything ==
  [][~transporter =>
       \A r \in Req :
         /\ req'[r].pc \notin Delivering
         /\ (req[r].pc = "saveSkipped" /\ Steps(r) /\ req'[r].code = 201)
              => store'[req[r].id]["emailStatus"] = "skipped"]_vars

\* C20: a quote carries an emailError only together with emailStatus failed,
\* in the store and on the document a handler is about to save.
C20_ErrorOnlyWhenFailed ==
  /\ \A i \in QuoteIds :
       store[i]["emailError"] \notin {Absent, "nodoc"}
         => store[i]["emailStatus"] = "failed"
  /\ \A r \in Req :
       \A d \in {req[r].doc, req[r].adhoc} :
         d["emailError"] # Absent => d["emailStatus"] = "failed"

\* a create about to save the error of a send that was rejected
C20_Witness ==
  \E r \in Req :
    /\ req[r].kind = "post" /\ req[r].pc = "saveFailed"
    /\ req[r].adhoc["emailError"] = "transport"

C22_AtMostRetriesAttempts ==
  [][snd'.retries >= 1 =>
       /\ snd'.calls <= snd'.attempt /\ snd'.attempt <= snd'.retries
       /\ snd'.pc = "rejected" => snd'.attempt = snd'.retries
       /\ snd.pc = "resolved" => snd'.pc \in {"resolved", "idle"}]_vars

\* a call rejected after one failed send for each of its retries
C22_Witness ==
  /\ snd.pc = "rejected" /\ snd.retries = MaxRetries
  /\ snd.calls = MaxRetries /\ snd.error = "transport"

InFlight == {"save", "saveSent", "saveFailed", "saveSkipped", "findById",
             "savePut", "sendMail", "backoff"}

\* C23: every request that was accepted gets its response, whatever sends
\* it goes through: no request stays in a store operation, a send attempt or
\* a backoff for ever.
C23_SendsAndRequestsTerminate ==
  \A r \in Req : (req[r].pc \in InFlight) ~> (req[r].pc = "done")
\* a create answered after a send that exhausted its retries
C23_Witness ==
  \E r \in Req :
    /\ req[r].kind = "post" /\ req[r].pc = "done"
    /\ req[r].outcome = "rejected" /\ req[r].warning

\* C24: when a create finishes its write-back after an update of the same
\* quote was answered in the meantime, the stored quote has the update's
\* status and notes and the outcome the create wrote back.
C24_NoLostUpdate ==
  [][\A r, u \in Req :
       ( /\ req[r].kind = "post" /\ req[r].pc \in WritingBack
         /\ req'[r].pc = "done" /\ req'[r].code = 201
         /\ req[u].kind = "put" /\ req[u].pc = "done" /\ req[u].code = 200 )
       => /\ store'[req[r].id]["status"] = req[u].data["status"]
          /\ store'[req[r].id]["adminNotes"] = req[u].data["adminNotes"]
          /\ store'[req[r].id]["emailStatus"] \in {"sent", "failed", "skipped"}]_vars

\* C25: an update that supplied notes and whose save succeeded leaves the
\* stored quote with its own status and its own notes, whatever other update
\* ran in between.
C25_StatusAndNotesTogether ==
  [][\A r \in Req :
       ( /\ req[r].kind = "put" /\ req[r].pc = "savePut" /\ Steps(r)
         /\ "adminNotes" \in req[r].modified
         /\ req'[r].code # 500 )
       => /\ store'[req[r].id]["status"] = req[r].doc["status"]
          /\ store'[req[r].id]["adminNotes"] = req[r].doc["adminNotes"]]_vars

\* C26: a save of the update handler leaves the stored emailStatus and
\* emailError of every quote as they were, and a write-back save of the
\* create handler leaves every stored status and adminNotes as they were.
C26_WritersDisjoint ==
  [][\A r \in Req, i \in QuoteIds :
       /\ (req[r].kind = "put" /\ Steps(r))
            => \A p \in {"emailStatus", "emailError"} : store'[i][p] = store[i][p]
       /\ (req[r].kind = "post" /\ req[r].pc \in WritingBack /\ Steps(r))
            => \A p \in {"status", "adminNotes"} : store'[i][p] = store[i][p]]_vars

\* a create answered after its write-back, an update having changed the
\* status and notes of its quote in the meantime
C26_Witness ==
  \E r \in Req, i \in QuoteIds :
    /\ req[r].kind = "post" /\ req[r].pc = "done" /\ req[r].code = 201
    /\ req[r].data["status"] = "pending"
    /\ store[i]["status"] = "processed" /\ store[i]["adminNotes"] = "n1"

\* C27: no step of a request changes the readiness flag: it changes only in
\* the verify callback and the error callback of the transporter.
C27_HandlersLeaveFlag ==
  [][/\ (\E r \in Req : Steps(r)) => emailServiceReady' = emailServiceReady
     /\ emailServiceReady' # emailServiceReady
          => \/ verifyPending /\ ~verifyPending'
             \/ transporter /\ emailServiceReady /\ ~emailServiceReady']_vars

\* an update whose send exhausted its retries at sendMail, the flag still set
C27_Witness ==
  \E r \in Req :
    /\ req[r].kind = "put" /\ req[r].pc = "done"
    /\ req[r].outcome = "rejected" /\ emailServiceReady

\* C28: every stored quote eventually has a stored emailStatus of sent,
\* failed or skipped.
C28_OutcomeEventuallyRecorded ==
  \A i \in QuoteIds :
    (store[i] # NoDoc) ~> (store[i]["emailStatus"] \in {"sent", "failed", "skipped"})

\* C29: a create holds emailStatus failed on its document only with the
\* error of a delivery attempt: never with the error of a cleared flag and
\* never with the error of the save that records sent.
C29_FailedMeansDeliveryFailed ==
  \A r \in Req :
    (req[r].kind = "post" /\ req[r].adhoc["emailStatus"] = "failed")
      => req[r].adhoc["emailError"] = "transport"

\* C30: once verify has fired a cleared flag stays cleared, and a create
\* that finds it cleared and is answered 201 leaves emailStatus skipped
\* stored, and no update enters a send.
C30_NoReadinessRecovery ==
  [][(transporter /\ ~verifyPending /\ ~emailServiceReady) =>
       /\ ~emailServiceReady'
       /\ \A r \in Req :
            /\ (req[r].pc = "savePut" /\ Steps(r)) => req'[r].pc \notin Delivering
            /\ (req[r].pc = "saveSkipped" /\ Steps(r) /\ req'[r].code = 201)
                 => store'[req[r].id]["emailStatus"] = "skipped"]_vars

\* C31: sendMail is invoked only in a step that finds the flag set; an
\* attempt that finds it cleared is caught with 'Email service not ready'
\* and invokes nothing.
C31_NoSendWhileUnready ==
  [][snd' # snd =>
       /\ snd'.calls > snd.calls => (emailServiceReady /\ snd'.pc = "sendMail")
       /\ (~emailServiceReady /\ snd.pc \in {"idle", "backoff"}
             /\ snd'.attempt > snd.attempt)
            => (snd'.calls = snd.calls
                 /\ snd'.error = "Email service not ready")]_vars

\* an attempt caught as not ready after an earlier one reached sendMail
C31_Witness ==
  /\ snd.pc = "backoff" /\ snd.calls = 1 /\ snd.attempt = 2
  /\ snd.error = "Email service not ready" /\ ~emailServiceReady

\* C32: a create turns to the admin alert only in the step in which the
\* customer confirmation is delivered, and sets emailStatus sent on its
\* document only in the step in which the admin alert is delivered.
C32_SendsOrdered ==
  [][\A r \in Req :
       req'[r].kind = "post" =>
         /\ (req'[r].mail = "admin" /\ req[r].mail # "admin")
              => (req[r].mail = "customer" /\ SendMailReturns(r, TRUE))
         /\ (req'[r].adhoc["emailStatus"] = "sent"
               /\ req[r].adhoc["emailStatus"] # "sent")
              => (req[r].mail = "admin" /\ SendMailReturns(r, TRUE))]_vars

\* a create with both mails delivered about to save emailStatus sent
C32_Witness ==
  \E r \in Req :
    /\ req[r].kind = "post" /\ req[r].pc = "saveSent"
    /\ req[r].mail = "admin" /\ req[r].adhoc["emailStatus"] = "sent"

\* C35: a call that completes without an error has had sendMail accept the
\* message, for every retries >= 0.
C35_SuccessMeansSent ==
  snd.pc = "resolved" => snd.calls >= 1

\* C33: a product request that was answered has had its handler send one
\* response, on the error path as well.
C33_OneResponsePerRequest ==
  \A r \in Req : productReq[r].pc = "done" => productReq[r].sends = 1

\* C34: a testimonial is stored as approved only with the approval the
\* approve handler wrote, a create stores approved = false and featured =
\* false whatever its body, and a public listing answers only with
\* testimonials that are approved.
C34_ListedOnlyIfApproved ==
  [][/\ \A i \in TestimonialIds :
          /\ testimonials'[i].approved => testimonials'[i].approvedAt
          /\ (testimonials[i] = NoTestimonial /\ testimonials'[i] # NoTestimonial)
               => (~testimonials'[i].approved /\ ~testimonials'[i].featured)
     /\ \A r \in Req :
          (testimonialReq[r].pc = "exec" /\ testimonialReq'[r].code = 200)
          => \A i \in testimonialReq'[r].data :
               testimonials[i].approved /\ testimonials[i].approvedAt]_vars

\* a listing that answered with an approved testimonial and left out one
\* that is featured but not approved
C34_Witness ==
  \E r \in Req, i, j \in TestimonialIds :
    /\ testimonialReq[r].kind = "list" /\ testimonialReq[r].pc = "done"
    /\ testimonialReq[r].data = {i}
    /\ testimonials[j].at = "stored"
    /\ testimonials[j].featured /\ ~testimonials[j].approved

====
